---- MODULE Spec2Model ----
(***************************************************************************)
(* Display topology and refresh-rate controller (src/src/lib.rs) and its    *)
(* tray window (src/src/main.rs).                                          *)
(*                                                                         *)
(* The three library operations are modelled step by step, one action per  *)
(* platform call and the code that follows it up to the next platform      *)
(* call.  The platform (EnumDisplaySettingsW, ChangeDisplaySettingsExW,    *)
(* EnumDisplayDevicesW, SetupDi calls) is the environment: answers are     *)
(* drawn with \E when the call is made and recorded in log variables, so   *)
(* that the properties can relate what the code returned to what the       *)
(* platform reported.                                                      *)
(*                                                                         *)
(*   SpecRates  get_available_refresh_rates   lib.rs 27-50                 *)
(*   SpecSet    set_display_refresh_rate      lib.rs 236-308               *)
(*   SpecEnum   get_all_display_devices       lib.rs 58-213                *)
(*                                                                         *)
(* The tray window is modelled one action per message handled by wnd_proc: *)
(* the thread's message queue, the user at the popup menu and the display  *)
(* topology are the environment, and the two library enumerations are      *)
(* taken by their results.                                                 *)
(*                                                                         *)
(*   SpecUI       wnd_proc and the message loop   main.rs 32-301           *)
(*   SpecMenuIds  the menu ids of one topology    main.rs 99-124, 175-203  *)
(***************************************************************************)
EXTENDS Integers, Sequences, FiniteSets, TLC

VARIABLES
    \* ---- get_available_refresh_rates ----
    rpc,            \* position: "enum" (in the loop) or "done" (returned)
    mode_num,       \* lib.rs:32
    refresh_rates,  \* lib.rs:28, the HashSet
    sorted_rates,   \* lib.rs:47, the returned Vec
    modeLog,        \* frequencies of the modes the platform returned, by index
    modeReq,        \* mode indices requested from the platform, in order
    \* ---- shared by the two functions that own a DEVMODEW ----
    dev_mode,
    \* ---- set_display_refresh_rate ----
    spc,            \* position: "idle", "read" (in EnumDisplaySettingsW),
                    \* "change" (in ChangeDisplaySettingsExW)
    device_name,    \* lib.rs:236, argument
    refresh_rate,   \* lib.rs:236, argument
    changeCalls,    \* ChangeDisplaySettingsExW requests made by the running call
    log,            \* lines the running call printed (stdout and stderr)
    curFreq,        \* platform: the current display frequency of each device
    \* ---- get_all_display_devices ----
    epc,            \* position: the platform call the function is about to make
                    \* ("open", "adapters", "monitors", "devinfo", "friendly",
                    \* "desc", "destroy"), or "done" (returned)
    devices,        \* lib.rs:59, the returned Vec<DisplayDevice>
    origin,         \* for each element of devices, <<adapter_idx, monitor_idx>> at the push
    hdevinfo,       \* lib.rs:72
    adapter_idx,    \* lib.rs:87
    adapter_device, \* lib.rs:60
    adapter_device_name,            \* lib.rs:95
    monitor_idx,    \* lib.rs:103
    monitor_device, \* lib.rs:99
    monitor_display_name,           \* lib.rs:118
    monitor_display_name_candidate, \* lib.rs:139
    info_idx,       \* lib.rs:129, i
    buffer,         \* lib.rs:137
    required_size,  \* lib.rs:138
    devInfoSet,     \* platform: "none", "open" or "destroyed" device-information set
    devInfoList,    \* platform: the entries of the device-information set
    destroyCalls,   \* platform: number of SetupDiDestroyDeviceInfoList calls
    invalidUse,     \* platform: a SetupDi call was made on a set that is not open
    adapterLog,     \* platform: the adapters reported, in order
    monitorLog,     \* platform: the monitors reported, in order
    adapterReq,     \* platform: the adapter indices requested, in order
    monitorReq,     \* platform: the monitor enumerations requested, in order
    devInfoReq,     \* platform: the device-info indices requested, in order
    propReads,      \* platform: the registry properties read, in order
    last,           \* record of the call that returned last
    prev,           \* record of the call that returned before it; both are
                    \* forgotten when the display mode is changed from outside,
                    \* so prev and last are always two calls in succession
    \* ---- the tray window ----
    upc,            \* position of the thread: "loop" (in GetMessageW), "track"
                    \* (a right-click handler is inside TrackPopupMenuEx),
                    \* "exited" (the message loop was left), "deadlock" or
                    \* "panic" (the thread locked the Mutex it holds)
    ALL_DISPLAY_DEVICES,    \* main.rs:33, <<>> for None, <<v>> for Some(v)
    DEVICE_REFRESH_RATES,   \* main.rs:34-35, the HashMap behind the mutex
    topology,       \* platform: the display devices and their rate lists
    queue,          \* platform: the messages posted to the window, in order
    menu,           \* platform: <<>>, or <<the popup menu on the screen>>
    hwnd,           \* platform: "HWND", or "destroyed"
    quitPosted,     \* platform: PostQuitMessage was called
    lastCommand,    \* record of the WM_COMMAND handled last since the last
                    \* menu build
    lastBuild,      \* platform: <<>>, or <<what the platform reported to the
                    \* menu build that was completed last>>
    mutex,          \* main.rs:34-35, the Mutex: "unlocked" or "locked"
    setCall         \* <<>>, or <<the device and rate>> of the call of
                    \* set_display_refresh_rate the WM_COMMAND handler is inside

\* ------------------------------------------------------------------------
\* Bounds of the model
\* ------------------------------------------------------------------------
\* Largest display frequency the platform reports (frequencies are 0..MaxFreq)
MaxFreq == 4
\* Largest number of modes the platform reports before it ends the list
MaxModes == 4
\* Largest rate requested of set_display_refresh_rate, and largest current
\* frequency of a device (rates are 1..MaxRate)
MaxRate == 2

\* Largest number of adapters the platform reports before it ends the
\* enumeration, and largest number of monitors it reports in one pass (over
\* all adapters)
MaxAdapters == 2
MaxMonitors == 3
\* Largest number of entries of the monitor device-information set
MaxDevInfo == 2
\* Capacities, in 16-bit units, of DISPLAY_DEVICEW.DeviceName (32 in the
\* platform headers), DISPLAY_DEVICEW.DeviceString (128) and of the property
\* buffer (256, lib.rs:137), scaled down to the model's short strings
DeviceNameUnits == 4
DeviceStringUnits == 5
BufferUnits == 6

\* Largest number of messages waiting in the queue of the window
MaxQueue == 1
\* Number of rates of the device with the longest rate list
ManyRates == 101

Freqs == 0 .. MaxFreq

\* ------------------------------------------------------------------------
\* Sequences
\* ------------------------------------------------------------------------
Range(s) == { s[i] : i \in 1 .. Len(s) }

\* All the orders in which the elements of a finite set can be produced
\* (the iteration order of a HashSet is unspecified).
Orderings(S) ==
    { s \in [1 .. Cardinality(S) -> S] : \A x \in S : \E i \in DOMAIN s : s[i] = x }

RECURSIVE InsertSorted(_, _)
InsertSorted(x, s) ==
    IF s = <<>> THEN <<x>>
    ELSE IF x <= Head(s) THEN <<x>> \o s
    ELSE <<Head(s)>> \o InsertSorted(x, Tail(s))

\* A sort that leaves its input as it is (the sort left out).
SortUnstable_Skipped(v) == v

\* lib.rs:48  sorted_rates.sort_unstable(): ascending order of the elements
RECURSIVE SortUnstable(_)
SortUnstable(v) ==
    IF v = <<>> THEN <<>> ELSE InsertSorted(Head(v), SortUnstable(Tail(v)))

\* ------------------------------------------------------------------------
\* DEVMODEW: the two fields the code reads or writes
\* ------------------------------------------------------------------------
\* lib.rs:29-30 and 238-239  mem::zeroed(), dmSize set
ZeroedDevMode == [dmDisplayFrequency |-> 0, dmFields |-> {}]

\* ========================================================================
\* get_available_refresh_rates (lib.rs:27-50)
\* ========================================================================
RatesStart ==
    /\ rpc = "enum"
    /\ mode_num = 0
    /\ refresh_rates = {}
    /\ sorted_rates = <<>>
    /\ modeLog = <<>>
    /\ modeReq = <<>>

\* The frequency 1 kept as well.
KeepFrequency_AboveZero(f) == f > 0

\* lib.rs:41-43  the frequency is kept when it is > 1
KeepFrequency(f) == f > 1

\* lib.rs:34-44  EnumDisplaySettingsW(dev, mode_num) succeeded and filled
\* dev_mode with a mode of frequency f
EnumModeOk(f) ==
    /\ rpc = "enum"
    /\ mode_num < MaxModes
    /\ modeReq' = Append(modeReq, mode_num)
    /\ modeLog' = Append(modeLog, f)
    /\ dev_mode' = [dev_mode EXCEPT !.dmDisplayFrequency = f]
    /\ refresh_rates' = IF KeepFrequency(f) THEN refresh_rates \cup {f} ELSE refresh_rates
    /\ mode_num' = mode_num + 1
    /\ UNCHANGED <<rpc, sorted_rates>>

\* lib.rs:37-39 and 47-49  EnumDisplaySettingsW returned 0: the loop ends, the
\* set is drained in some order into a Vec, sorted and returned
EnumModeEnd ==
    /\ rpc = "enum"
    /\ modeReq' = Append(modeReq, mode_num)
    /\ \E order \in Orderings(refresh_rates) : sorted_rates' = SortUnstable(order)
    /\ rpc' = "done"
    /\ UNCHANGED <<mode_num, refresh_rates, modeLog, dev_mode>>


\* ========================================================================
\* Text at the platform boundary
\* ========================================================================
\* lib.rs:24  the terminating zero unit
NUL == 0

\* A string is a sequence of non-zero 16-bit units; the model's strings are
\* short and use small unit values (none is a surrogate, so
\* String::from_utf16_lossy maps each unit to itself).

\* lib.rs:23-25  to_wide_string: the units followed by one zero unit
to_wide_string(s) == Append(s, NUL)

\* What the platform reads from a pointer to wide units: the units before the
\* first zero unit.
RECURSIVE CStr(_)
CStr(w) ==
    IF w = <<>> \/ Head(w) = NUL THEN <<>> ELSE <<Head(w)>> \o CStr(Tail(w))

\* lib.rs:96, 119, 156, 180, 195  .trim_end_matches('\0'): the trailing zero
\* units are dropped, zero units inside the text are kept
RECURSIVE TrimEndNul(_)
TrimEndNul(s) ==
    IF s = <<>> THEN <<>>
    ELSE IF s[Len(s)] = NUL THEN TrimEndNul(SubSeq(s, 1, Len(s) - 1))
    ELSE s

\* The adapter names of the platform, "\\.\DISPLAYn" shortened to two units.
DisplayName(n) == <<68, 48 + n>>
DeviceNames == { DisplayName(1), DisplayName(2) }

\* ========================================================================
\* set_display_refresh_rate (lib.rs:236-308)
\* ========================================================================
Rates == 1 .. MaxRate

\* lib.rs:20  winuser result codes named by the code
DISP_CHANGE_SUCCESSFUL == 0
DISP_CHANGE_RESTART == 1
\* Result codes the code does not name (DISP_CHANGE_FAILED, DISP_CHANGE_BADMODE)
OtherChangeCodes == { -1, -2 }
ChangeCodes == { DISP_CHANGE_SUCCESSFUL, DISP_CHANGE_RESTART } \cup OtherChangeCodes

\* Values of GetLastError() (ERROR_ACCESS_DENIED, ERROR_INVALID_PARAMETER)
LastErrors == { 5, 87 }

\* lib.rs:273  the field-present flag of dmDisplayFrequency; the platform may
\* report other fields present
DM_DISPLAYFREQUENCY == "DM_DISPLAYFREQUENCY"
PlatformFields == { {"DM_PELSWIDTH"}, {"DM_PELSWIDTH", DM_DISPLAYFREQUENCY} }

\* A line of output: println! goes to stdout, eprintln! to stderr.  code and
\* last_error are <<>> or <<value>>.
Line(stream, msg, code, err) ==
    [stream |-> stream, msg |-> msg, code |-> code, last_error |-> err]

\* The record of a returned call.  read is "ok" or "failed"; current is <<the
\* frequency the read reported>>, or <<>> when it failed; code is <<>> when
\* ChangeDisplaySettingsExW was not called, else <<its result>>.
NoCall ==
    [valid |-> FALSE, device |-> <<>>, rate |-> 0, ret |-> FALSE, read |-> "none",
     current |-> <<>>, code |-> <<>>, changes |-> <<>>, dev_mode |-> ZeroedDevMode, log |-> <<>>]

\* What is kept of the call before the last one.
Summary(c) ==
    [valid |-> c.valid, device |-> c.device, rate |-> c.rate, ret |-> c.ret,
     read |-> c.read, code |-> c.code]

CallRecord(ret, read, cur, code, changes, dm, lg) ==
    [valid |-> TRUE, device |-> device_name, rate |-> refresh_rate, ret |-> ret,
     read |-> read, current |-> cur, code |-> code, changes |-> changes, dev_mode |-> dm, log |-> lg]

SetStart ==
    /\ spc = "idle"
    /\ device_name = <<>>
    /\ refresh_rate = 0
    /\ changeCalls = <<>>
    /\ log = <<>>
    /\ curFreq \in [DeviceNames -> Rates]
    /\ last = NoCall
    /\ prev = Summary(NoCall)

\* The function returns: the locals are dropped, the call is recorded.
Return(ret, read, cur, code, changes, dm, lg) ==
    /\ spc' = "idle"
    /\ prev' = Summary(last)
    /\ last' = CallRecord(ret, read, cur, code, changes, dm, lg)
    /\ device_name' = <<>>
    /\ refresh_rate' = 0
    /\ dev_mode' = ZeroedDevMode
    /\ changeCalls' = <<>>
    /\ log' = <<>>

\* lib.rs:236-252  the call starts: dev_mode zeroed, the DEBUG line printed,
\* EnumDisplaySettingsW(device, ENUM_CURRENT_SETTINGS) entered
SetCall(d, r) ==
    /\ spc = "idle"
    /\ spc' = "read"
    /\ device_name' = d
    /\ refresh_rate' = r
    /\ dev_mode' = ZeroedDevMode
    /\ changeCalls' = <<>>
    /\ log' = <<Line("stdout", "DEBUG: Enumerating settings", <<>>, <<>>)>>
    /\ UNCHANGED <<curFreq, last, prev>>

\* A failed read that reports success.
ReadFailed_ReturnsTrue(err) ==
    /\ spc = "read"
    /\ Return(TRUE, "failed", <<>>, <<>>, changeCalls, dev_mode,
              Append(log, Line("stderr", "Error: Could not enumerate current display settings",
                               <<>>, <<err>>)))
    /\ UNCHANGED curFreq

\* lib.rs:254-261  the read returned 0: the error is printed and false returned
ReadFailed(err) ==
    /\ spc = "read"
    /\ Return(FALSE, "failed", <<>>, <<>>, changeCalls, dev_mode,
              Append(log, Line("stderr", "Error: Could not enumerate current display settings",
                               <<>>, <<err>>)))
    /\ UNCHANGED curFreq

\* The short-circuit left out.
AlreadyAtRate_Never(dm, r) == FALSE

\* lib.rs:264  the short-circuit test
AlreadyAtRate(dm, r) == dm.dmDisplayFrequency = r

\* The flag set but the frequency field left as read.
Requested_FrequencyNotSet(dm, r) ==
    [dm EXCEPT !.dmFields = @ \cup {DM_DISPLAYFREQUENCY}]

\* lib.rs:272-273  the settings structure as handed to the change request
Requested(dm, r) ==
    [dm EXCEPT !.dmDisplayFrequency = r, !.dmFields = @ \cup {DM_DISPLAYFREQUENCY}]

\* The change requested with CDS_UPDATEREGISTRY | CDS_NORESET: saved, not applied.
ChangeRequest_Deferred(name_wide, dm) ==
    [device |-> CStr(name_wide), dev_mode |-> dm,
     dwflags |-> {"CDS_UPDATEREGISTRY", "CDS_NORESET"}]

\* lib.rs:275-283  the arguments of ChangeDisplaySettingsExW; dwflags 0 is the
\* immediate (not deferred) change
ChangeRequest(name_wide, dm) ==
    [device |-> CStr(name_wide), dev_mode |-> dm, dwflags |-> {}]

\* lib.rs:246-283  the read succeeded and filled dev_mode with the current
\* settings of the device: either the rate is already the requested one and
\* true is returned, or the change is requested
ReadOk(fields) ==
    /\ spc = "read"
    /\ CStr(to_wide_string(device_name)) \in DOMAIN curFreq
    /\ LET cur == [dmDisplayFrequency |-> curFreq[CStr(to_wide_string(device_name))],
                   dmFields |-> fields]
       IN IF AlreadyAtRate(cur, refresh_rate)
          THEN /\ Return(TRUE, "ok", <<cur.dmDisplayFrequency>>, <<>>, changeCalls, cur,
                         Append(log, Line("stdout", "No change needed", <<>>, <<>>)))
               /\ UNCHANGED curFreq
          ELSE /\ dev_mode' = Requested(cur, refresh_rate)
               /\ changeCalls' =
                    Append(changeCalls,
                           ChangeRequest(to_wide_string(device_name),
                                         Requested(cur, refresh_rate)))
               /\ spc' = "change"
               /\ UNCHANGED <<device_name, refresh_rate, log, curFreq, last, prev>>

\* Every result of the change request reported as success.
Classify_AllSuccess(code) == TRUE
\* The restart-required result reported as failure.
Classify_RestartIsFailure(code) == code = DISP_CHANGE_SUCCESSFUL

\* lib.rs:285-307  the result of the change request as the returned value

Classify(code) == code \in { DISP_CHANGE_SUCCESSFUL, DISP_CHANGE_RESTART }

\* The failure line printed without the result code.
ResultLine_NoCode(code, err) ==
    IF code = DISP_CHANGE_SUCCESSFUL
    THEN Line("stdout", "Successfully changed refresh rate", <<>>, <<>>)
    ELSE IF code = DISP_CHANGE_RESTART
    THEN Line("stdout", "changed, but a restart is required", <<>>, <<>>)
    ELSE Line("stderr", "Failed to change refresh rate", <<>>, <<err>>)

\* lib.rs:285-307  the line printed for the result of the change request
ResultLine(code, err) ==
    IF code = DISP_CHANGE_SUCCESSFUL
    THEN Line("stdout", "Successfully changed refresh rate", <<>>, <<>>)
    ELSE IF code = DISP_CHANGE_RESTART
    THEN Line("stdout", "changed, but a restart is required", <<>>, <<>>)
    ELSE Line("stderr", "Failed to change refresh rate", <<code>>, <<err>>)

\* The platform's display frequency after a change request: the requested one
\* when the platform reports the change successful, the old or the requested
\* one when a restart is required, any when the request failed (the display
\* is left in whatever state the platform left it).
FreqAfterChange(code, old, req) ==
    IF code = DISP_CHANGE_SUCCESSFUL THEN {req}
    ELSE IF code = DISP_CHANGE_RESTART THEN {old, req}
    ELSE Rates \cup {old}

\* lib.rs:275-307  ChangeDisplaySettingsExW returned code: the result is
\* printed and classified, and the function returns
ChangeReturned(code, err) ==
    /\ spc = "change"
    /\ LET req == changeCalls[Len(changeCalls)]
       IN /\ \E f \in FreqAfterChange(code, curFreq[req.device],
                                      req.dev_mode.dmDisplayFrequency) :
               curFreq' = [curFreq EXCEPT ![req.device] = f]
          /\ Return(Classify(code), "ok", <<curFreq[req.device]>>, <<code>>, changeCalls,
                    dev_mode, Append(log, ResultLine(code, err)))

\* Another program, or the user, changes the display mode of a device between
\* two calls.
ExternalModeChange(d, f) ==
    /\ spc = "idle"
    /\ curFreq[d] # f
    /\ curFreq' = [curFreq EXCEPT ![d] = f]
    /\ last' = NoCall
    /\ prev' = Summary(NoCall)
    /\ UNCHANGED <<device_name, refresh_rate, dev_mode, changeCalls, log, spc>>

\* ========================================================================
\* get_all_display_devices (lib.rs:58-213)
\* ========================================================================
\* lib.rs:155  mem::size_of::<WCHAR>()
WCHAR_SIZE == 2

\* lib.rs:95, 118, 155, 179, 194  String::from_utf16_lossy: a unit that is a
\* lone surrogate becomes U+FFFD, every other unit is kept (the model has no
\* surrogate pairs)
from_utf16_lossy(w) ==
    [k \in 1 .. Len(w) |-> IF w[k] \in 55296 .. 57343 THEN 65533 ELSE w[k]]

\* A string in a fixed array of n units: the units, then zero units
Zeros(n) == [k \in 1 .. n |-> NUL]
Padded(str, n) == str \o Zeros(n - Len(str))

\* lib.rs:158  "Generic PnP Monitor", shortened to three units
GENERIC_PNP_MONITOR == <<71, 80, 77>>

\* The raw description the platform reports for monitor m of adapter a, and
\* the friendly name and the description of device-info entry e
MonitorString(a, m) == <<77, 48 + a, 48 + m>>
FriendlyName(e) == <<70, 48 + e>>
Description(e) == <<65, 48 + e>>

\* lib.rs:94, 117  the state flags the code tests
DISPLAY_DEVICE_ATTACHED_TO_DESKTOP == "ATTACHED_TO_DESKTOP"
DISPLAY_DEVICE_ACTIVE == "ACTIVE"
AdapterFlagSets == { {}, {DISPLAY_DEVICE_ATTACHED_TO_DESKTOP} }
MonitorFlagSets == { {}, {DISPLAY_DEVICE_ACTIVE} }

\* The result of a registry property read: <<>> when the read fails, <<text>>
\* when it succeeds (the text may be empty)
PropResults(good) == { <<>>, <<<<>>>>, <<GENERIC_PNP_MONITOR>>, <<good>> }

\* The device-information sets of the platform: the first entry has any
\* friendly name and description, the entries after it have proper names
FirstEntries ==
    { [friendly |-> f, desc |-> d] :
        f \in PropResults(FriendlyName(0)), d \in PropResults(Description(0)) }
LaterEntry(e) == [friendly |-> <<FriendlyName(e)>>, desc |-> <<Description(e)>>]
DevInfoLists ==
    { <<>> } \cup
    { [k \in 1 .. n |-> IF k = 1 THEN first ELSE LaterEntry(k - 1)] :
        n \in 1 .. MaxDevInfo, first \in FirstEntries }

\* lib.rs:60-61, 99-100  mem::zeroed() DISPLAY_DEVICEW
ZeroedAdapter == [DeviceName |-> Zeros(DeviceNameUnits), StateFlags |-> {}]
ZeroedMonitor == [DeviceString |-> Zeros(DeviceStringUnits), StateFlags |-> {}]

EnumStart ==
    /\ epc = "open"
    /\ devices = <<>>
    /\ origin = <<>>
    /\ hdevinfo = "unset"
    /\ adapter_idx = 0
    /\ adapter_device = ZeroedAdapter
    /\ adapter_device_name = <<>>
    /\ monitor_idx = 0
    /\ monitor_device = ZeroedMonitor
    /\ monitor_display_name = <<>>
    /\ monitor_display_name_candidate = <<>>
    /\ info_idx = 0
    /\ buffer = <<>>
    /\ required_size = 0
    /\ devInfoSet = "none"
    /\ devInfoList = <<>>
    /\ destroyCalls = 0
    /\ invalidUse = FALSE
    /\ adapterLog = <<>>
    /\ monitorLog = <<>>
    /\ adapterReq = <<>>
    /\ monitorReq = <<>>
    /\ devInfoReq = <<>>
    /\ propReads = <<>>

enumLocals == <<adapter_idx, adapter_device, adapter_device_name, monitor_idx,
                monitor_device, monitor_display_name, monitor_display_name_candidate,
                info_idx, buffer, required_size>>
enumLogs == <<adapterLog, monitorLog, adapterReq, monitorReq, devInfoReq, propReads>>
enumHandle == <<hdevinfo, devInfoSet, devInfoList, destroyCalls, invalidUse>>

\* A failed open after which the adapters are enumerated all the same.
OpenFailed_Continues ==
    /\ epc = "open"
    /\ hdevinfo' = "INVALID_HANDLE_VALUE"
    /\ epc' = "adapters"
    /\ UNCHANGED <<devices, origin, enumLocals, enumLogs, devInfoSet, devInfoList,
                   destroyCalls, invalidUse>>

\* lib.rs:72-84  SetupDiGetClassDevsW failed: the error is printed and the
\* empty Vec returned
OpenFailed ==
    /\ epc = "open"
    /\ hdevinfo' = "INVALID_HANDLE_VALUE"
    /\ epc' = "done"
    /\ UNCHANGED <<devices, origin, enumLocals, enumLogs, devInfoSet, devInfoList,
                   destroyCalls, invalidUse>>

\* lib.rs:72-88  SetupDiGetClassDevsW returned a device-information set
OpenOk(list) ==
    /\ epc = "open"
    /\ hdevinfo' = "HDEVINFO"
    /\ devInfoSet' = "open"
    /\ devInfoList' = list
    /\ epc' = "adapters"
    /\ UNCHANGED <<devices, origin, enumLocals, enumLogs, destroyCalls, invalidUse>>

\* lib.rs:94  the adapter is attached to the desktop
IsAttached_Always(flags) == TRUE
IsAttached(flags) == DISPLAY_DEVICE_ATTACHED_TO_DESKTOP \in flags

\* lib.rs:117  the monitor is active
IsActive_Always(flags) == TRUE
IsActive(flags) == DISPLAY_DEVICE_ACTIVE \in flags

\* The array taken whole, trailing zero units included.
Decode_NoTrim(units) == from_utf16_lossy(units)

\* lib.rs:95-97, 118-120, 194-196  a fixed array of units as a String
Decode(units) == TrimEndNul(from_utf16_lossy(units))

\* lib.rs:88-100  EnumDisplayDevicesW(NULL, adapter_idx) reported an adapter
\* with the given state flags
EnumAdapterOk(flags) ==
    /\ epc = "adapters"
    /\ adapter_idx < MaxAdapters
    /\ LET dev == [DeviceName |-> Padded(DisplayName(adapter_idx + 1), DeviceNameUnits),
                   StateFlags |-> flags]
       IN /\ adapter_device' = dev
          /\ adapterReq' = Append(adapterReq, adapter_idx)
          /\ adapterLog' = Append(adapterLog,
                [idx |-> adapter_idx, name |-> CStr(dev.DeviceName), flags |-> flags])
          /\ IF IsAttached(dev.StateFlags)
             THEN /\ adapter_device_name' = Decode(dev.DeviceName)
                  /\ monitor_device' = ZeroedMonitor
                  /\ monitor_idx' = 0
                  /\ epc' = "monitors"
                  /\ UNCHANGED adapter_idx
             ELSE /\ adapter_idx' = adapter_idx + 1
                  /\ UNCHANGED <<adapter_device_name, monitor_device, monitor_idx, epc>>
    /\ UNCHANGED <<devices, origin, monitor_display_name, monitor_display_name_candidate,
                   info_idx, buffer, required_size, enumHandle, monitorLog, monitorReq,
                   devInfoReq, propReads>>

\* The loop left without releasing the device-information set.
EnumAdapterEnd_NoRelease ==
    /\ epc = "adapters"
    /\ adapterReq' = Append(adapterReq, adapter_idx)
    /\ epc' = "done"
    /\ UNCHANGED <<devices, origin, enumLocals, adapterLog, monitorLog, monitorReq,
                   devInfoReq, propReads, enumHandle>>

\* lib.rs:88-91, 211  EnumDisplayDevicesW(NULL, adapter_idx) returned 0: the
\* adapter loop ends and the device-information set is about to be destroyed
EnumAdapterEnd ==
    /\ epc = "adapters"
    /\ adapterReq' = Append(adapterReq, adapter_idx)
    /\ epc' = "destroy"
    /\ UNCHANGED <<devices, origin, enumLocals, adapterLog, monitorLog, monitorReq,
                   devInfoReq, propReads, enumHandle>>

\* lib.rs:211-212  SetupDiDestroyDeviceInfoList(hdevinfo), then the Vec is
\* returned
DestroyList ==
    /\ epc = "destroy"
    /\ destroyCalls' = destroyCalls + 1
    /\ invalidUse' = (invalidUse \/ devInfoSet # "open")
    /\ devInfoSet' = "destroyed"
    /\ epc' = "done"
    /\ UNCHANGED <<devices, origin, enumLocals, enumLogs, hdevinfo, devInfoList>>

\* The element put in front of the Vec.
PushDevice_InFront(dname, mname) ==
    /\ devices' = <<[device_name |-> dname, display_name |-> mname]>> \o devices
    /\ origin' = <<<<adapter_idx, monitor_idx>>>> \o origin

\* lib.rs:202-205  devices.push(DisplayDevice { .. })
PushDevice(dname, mname) ==
    /\ devices' = Append(devices, [device_name |-> dname, display_name |-> mname])
    /\ origin' = Append(origin, <<adapter_idx, monitor_idx>>)

\* The device-info loop started at the second entry.
StartIndex_Second == 0 + 1

\* lib.rs:129  for i in 0..: the index the device-info loop starts at
StartIndex == 0

\* lib.rs:104-111  the monitor enumeration the platform is asked for
MonitorRequest == [device |-> CStr(to_wide_string(adapter_device_name)), idx |-> monitor_idx]

\* lib.rs:104-126  EnumDisplayDevicesW(adapter, monitor_idx) reported a monitor
\* with the given state flags
EnumMonitorOk(flags) ==
    /\ epc = "monitors"
    /\ Len(monitorLog) < MaxMonitors
    /\ LET mon == [DeviceString |-> Padded(MonitorString(adapter_idx, monitor_idx),
                                           DeviceStringUnits),
                   StateFlags |-> flags]
       IN /\ monitor_device' = mon
          /\ monitorReq' = Append(monitorReq, MonitorRequest)
          /\ monitorLog' = Append(monitorLog,
                [adapter |-> adapter_idx, idx |-> monitor_idx,
                 string |-> CStr(mon.DeviceString), flags |-> flags])
          /\ IF IsActive(mon.StateFlags)
             THEN /\ monitor_display_name' = Decode(mon.DeviceString)
                  /\ info_idx' = StartIndex
                  /\ epc' = "devinfo"
                  /\ UNCHANGED monitor_idx
             ELSE /\ monitor_idx' = monitor_idx + 1
                  /\ UNCHANGED <<monitor_display_name, info_idx, epc>>
    /\ UNCHANGED <<devices, origin, adapter_idx, adapter_device, adapter_device_name,
                   monitor_display_name_candidate, buffer, required_size, enumHandle,
                   adapterLog, adapterReq, devInfoReq, propReads>>

\* lib.rs:104-114  EnumDisplayDevicesW(adapter, monitor_idx) returned 0: the
\* monitor loop ends and the next adapter is asked for
EnumMonitorEnd ==
    /\ epc = "monitors"
    /\ monitorReq' = Append(monitorReq, MonitorRequest)
    /\ adapter_idx' = adapter_idx + 1
    /\ epc' = "adapters"
    /\ UNCHANGED <<devices, origin, adapter_device, adapter_device_name, monitor_idx,
                   monitor_device, monitor_display_name, monitor_display_name_candidate,
                   info_idx, buffer, required_size, enumHandle, adapterLog, adapterReq,
                   monitorLog, devInfoReq, propReads>>

\* lib.rs:198-206  the device-info loop is left: the DisplayDevice is pushed
\* and the next monitor is asked for
FinishMonitor(mname) ==
    /\ PushDevice(adapter_device_name, mname)
    /\ monitor_idx' = monitor_idx + 1
    /\ epc' = "monitors"

\* lib.rs:130-139  SetupDiEnumDeviceInfo(hdevinfo, info_idx): it fails at the end of
\* the set, and the monitor keeps its raw description; else the property
\* buffer is set up for the entry
EnumDeviceInfo ==
    /\ epc = "devinfo"
    /\ devInfoReq' = Append(devInfoReq, info_idx)
    /\ invalidUse' = (invalidUse \/ devInfoSet # "open")
    /\ IF info_idx < Len(devInfoList)
       THEN /\ buffer' = Zeros(BufferUnits)
            /\ required_size' = 0
            /\ monitor_display_name_candidate' = <<>>
            /\ epc' = "friendly"
            /\ UNCHANGED <<devices, origin, monitor_idx>>
       ELSE /\ FinishMonitor(monitor_display_name)
            /\ UNCHANGED <<buffer, required_size, monitor_display_name_candidate>>
    /\ UNCHANGED <<adapter_idx, adapter_device, adapter_device_name, monitor_device,
                   monitor_display_name, info_idx, hdevinfo, devInfoSet, devInfoList,
                   destroyCalls, adapterLog, adapterReq, monitorLog, monitorReq,
                   propReads>>

\* SetupDiGetDeviceRegistryPropertyW succeeded with the given text: the text
\* and its terminator are at the start of the buffer
BufferAfterRead(buf, text) ==
    to_wide_string(text) \o SubSeq(buf, Len(text) + 2, Len(buf))
RequiredSize(text) == (Len(text) + 1) * WCHAR_SIZE

\* lib.rs:155-157, 179-181  the property as a String
PropertyText(buf, size) == Decode(SubSeq(buf, 1, size \div WCHAR_SIZE))

\* lib.rs:158, 182  the property is a usable name
Acceptable(name) == name # <<>> /\ name # GENERIC_PNP_MONITOR

\* The description never read.
NeedsDescription_Never(candidate) == FALSE

\* lib.rs:165  the description is read when the friendly name gave nothing
NeedsDescription(candidate) == candidate = <<>> \/ candidate = GENERIC_PNP_MONITOR

\* lib.rs:190-197  the name the monitor gets after the reads
BestName(candidate, raw) == IF candidate # <<>> THEN candidate ELSE Decode(raw)

\* lib.rs:142-165, 190-206  the friendly-name read of entry info_idx
ReadFriendlyName ==
    /\ epc = "friendly"
    /\ propReads' = Append(propReads, [entry |-> info_idx, prop |-> "CM_DRP_FRIENDLYNAME"])
    /\ invalidUse' = (invalidUse \/ devInfoSet # "open")
    /\ LET res == devInfoList[info_idx + 1].friendly
           buf == IF res = <<>> THEN buffer ELSE BufferAfterRead(buffer, res[1])
           size == IF res = <<>> THEN required_size ELSE RequiredSize(res[1])
           cand == IF res # <<>> /\ Acceptable(PropertyText(buf, size))
                   THEN PropertyText(buf, size)
                   ELSE monitor_display_name_candidate
       IN /\ buffer' = buf
          /\ required_size' = size
          /\ monitor_display_name_candidate' = cand
          /\ IF NeedsDescription(cand)
             THEN /\ epc' = "desc"
                  /\ UNCHANGED <<devices, origin, monitor_idx, monitor_display_name>>
             ELSE /\ monitor_display_name' = BestName(cand, monitor_device.DeviceString)
                  /\ FinishMonitor(BestName(cand, monitor_device.DeviceString))
    /\ UNCHANGED <<adapter_idx, adapter_device, adapter_device_name, monitor_device, info_idx,
                   hdevinfo, devInfoSet, devInfoList, destroyCalls, adapterLog,
                   adapterReq, monitorLog, monitorReq, devInfoReq>>

\* lib.rs:166-206  the description read of entry info_idx
ReadDescription ==
    /\ epc = "desc"
    /\ propReads' = Append(propReads, [entry |-> info_idx, prop |-> "CM_DRP_DEVICEDESC"])
    /\ invalidUse' = (invalidUse \/ devInfoSet # "open")
    /\ LET res == devInfoList[info_idx + 1].desc
           buf == IF res = <<>> THEN buffer ELSE BufferAfterRead(buffer, res[1])
           size == IF res = <<>> THEN required_size ELSE RequiredSize(res[1])
           cand == IF res # <<>> /\ Acceptable(PropertyText(buf, size))
                   THEN PropertyText(buf, size)
                   ELSE monitor_display_name_candidate
       IN /\ buffer' = buf
          /\ required_size' = size
          /\ monitor_display_name_candidate' = cand
          /\ monitor_display_name' = BestName(cand, monitor_device.DeviceString)
          /\ FinishMonitor(BestName(cand, monitor_device.DeviceString))
    /\ UNCHANGED <<adapter_idx, adapter_device, adapter_device_name, monitor_device, info_idx,
                   hdevinfo, devInfoSet, devInfoList, destroyCalls, adapterLog,
                   adapterReq, monitorLog, monitorReq, devInfoReq>>

\* ========================================================================
\* The tray window: wnd_proc and the message loop (main.rs:32-301)
\* ========================================================================
\* main.rs:29
MENU_REFRESH_RATE_BASE_ID == 2000
\* main.rs:30
MENU_EXIT_ID == 9999
\* main.rs:121, 181-182  the literal 100: the ids between one monitor index
\* and the next
MONITOR_ID_STRIDE == 100

\* main.rs:177  LOWORD(wparam as DWORD)
LOWORD(w) == w % 65536

\* main.rs:121  the id of the item of rate j of monitor i
ItemId(i, j) == MENU_REFRESH_RATE_BASE_ID + i * MONITOR_ID_STRIDE + j

\* main.rs:181-182  the indices a menu id is taken apart into
MonitorIndex(menu_id) == (menu_id - MENU_REFRESH_RATE_BASE_ID) \div MONITOR_ID_STRIDE
RateIndex(menu_id) == (menu_id - MENU_REFRESH_RATE_BASE_ID) % MONITOR_ID_STRIDE

\* The index passed on in place of the rate.
SelectedRate_Index(rates, rate_index) == rate_index

\* main.rs:190  rates[rate_index]
SelectedRate(rates, rate_index) == rates[rate_index + 1]

\* lib.rs:52-56  the DisplayDevice of monitor m of adapter a
DisplayDevice(a, m) ==
    [device_name |-> DisplayName(a), display_name |-> MonitorString(a - 1, m)]

\* What the platform has: the result get_all_display_devices gives, and the
\* result get_available_refresh_rates gives for each device name.
Topology(devs, rates1, rates2) ==
    [devices |-> devs,
     rates |-> (DisplayName(1) :> rates1 @@ DisplayName(2) :> rates2)]

\* No display; one; two; the first one detached; two monitors on the one
\* adapter, which reports no rate.
Topologies ==
    { Topology(<<>>, <<>>, <<>>),
      Topology(<<DisplayDevice(1, 0)>>, <<60, 120>>, <<>>),
      Topology(<<DisplayDevice(1, 0), DisplayDevice(2, 0)>>, <<60, 120>>, <<60, 75>>),
      Topology(<<DisplayDevice(2, 0)>>, <<>>, <<60, 75>>),
      Topology(<<DisplayDevice(1, 0), DisplayDevice(1, 1)>>, <<>>, <<>>) }

\* One or two displays, the first with a long list of rates 2, 3, 4, ...
LongRateList(n) == [k \in 1 .. n |-> k + 1]
WideTopologies ==
    { Topology(devs, LongRateList(n), rates2) :
         devs \in { <<DisplayDevice(1, 0)>>, <<DisplayDevice(1, 0), DisplayDevice(2, 0)>> },
         n \in { ManyRates - 1, ManyRates },
         rates2 \in { <<>>, <<60, 75>> } }

\* The wparam of the WM_COMMAND messages other programs post
ForeignParams == { 1999, 2200, 65536 + 2001 }

\* main.rs:34-35  HashMap::new()
NoEntries == [d \in {} |-> <<>>]

NoCommand ==
    [valid |-> FALSE, menu_id |-> 0, item |-> <<>>, built |-> <<>>,
     seen |-> [devices |-> <<>>, rates |-> NoEntries],
     set |-> <<>>, quit |-> FALSE, error |-> ""]

UiStart ==
    /\ upc = "loop"
    /\ ALL_DISPLAY_DEVICES = <<>>
    /\ DEVICE_REFRESH_RATES = NoEntries
    /\ queue = <<>>
    /\ menu = <<>>
    /\ hwnd = "HWND"
    /\ quitPosted = FALSE
    /\ lastCommand = NoCommand
    /\ lastBuild = <<>>
    /\ mutex = "unlocked"
    /\ setCall = <<>>

\* A message in the queue.  item and built are <<>>, or <<the menu item the
\* user selected>> and <<the device list and the rates the menu was built
\* from>>.
Message(msg, wparam, lparam, item, built) ==
    [msg |-> msg, wparam |-> wparam, lparam |-> lparam, item |-> item, built |-> built]

\* The shell posts the notification of a right-click on the tray icon.
PostRightClick ==
    /\ upc \in {"loop", "track"} /\ hwnd = "HWND"
    /\ Len(queue) < MaxQueue
    /\ queue' = Append(queue, Message("WM_APP_NOTIFYICON", 0, "WM_RBUTTONUP", <<>>, <<>>))
    /\ UNCHANGED <<upc, ALL_DISPLAY_DEVICES, DEVICE_REFRESH_RATES, topology, menu, hwnd,
                   quitPosted, lastCommand, lastBuild, mutex, setCall>>

\* Another program posts a WM_COMMAND to the window.
PostCommand(w) ==
    /\ upc \in {"loop", "track"} /\ hwnd = "HWND"
    /\ Len(queue) < MaxQueue
    /\ queue' = Append(queue, Message("WM_COMMAND", w, 0, <<>>, <<>>))
    /\ UNCHANGED <<upc, ALL_DISPLAY_DEVICES, DEVICE_REFRESH_RATES, topology, menu, hwnd,
                   quitPosted, lastCommand, lastBuild, mutex, setCall>>

\* Another program posts WM_CLOSE to the window.
PostClose ==
    /\ upc \in {"loop", "track"} /\ hwnd = "HWND"
    /\ Len(queue) < MaxQueue
    /\ queue' = Append(queue, Message("WM_CLOSE", 0, 0, <<>>, <<>>))
    /\ UNCHANGED <<upc, ALL_DISPLAY_DEVICES, DEVICE_REFRESH_RATES, topology, menu, hwnd,
                   quitPosted, lastCommand, lastBuild, mutex, setCall>>

\* A display is attached, detached or changes its modes.
TopologyChange(t) ==
    /\ upc \in {"loop", "track"}
    /\ t # topology
    /\ topology' = t
    /\ UNCHANGED <<upc, ALL_DISPLAY_DEVICES, DEVICE_REFRESH_RATES, queue, menu, hwnd,
                   quitPosted, lastCommand, lastBuild, mutex, setCall>>

\* The message at the head of the queue is handed to wnd_proc: by
\* DispatchMessageW in the message loop (main.rs:284-301), or by the modal
\* loop of TrackPopupMenuEx while a right-click handler is inside it.  No
\* loop takes a message from the queue while the thread is inside
\* set_display_refresh_rate.
Dispatched(msg) ==
    /\ upc \in {"loop", "track"}
    /\ setCall = <<>>
    /\ queue # <<>>
    /\ Head(queue).msg = msg

\* main.rs:69-75  CreatePopupMenu returned null: the handler returns 0
HandleRightClickNoMenu ==
    /\ Dispatched("WM_APP_NOTIFYICON")
    /\ queue' = Tail(queue)
    /\ UNCHANGED <<upc, ALL_DISPLAY_DEVICES, DEVICE_REFRESH_RATES, topology, menu, hwnd,
                   quitPosted, lastCommand, lastBuild, mutex, setCall>>

\* The map without the clear(): the entries of earlier builds stay.
RatesOfDevices_NoClear(devs, t) ==
    [d \in DOMAIN DEVICE_REFRESH_RATES \cup { devs[k].device_name : k \in 1 .. Len(devs) } |->
        IF d \in { devs[k].device_name : k \in 1 .. Len(devs) }
        THEN t.rates[d] ELSE DEVICE_REFRESH_RATES[d]]

\* main.rs:79-89  the map after clear() and one insert per device of the list
RatesOfDevices(devs, t) ==
    [d \in { devs[k].device_name : k \in 1 .. Len(devs) } |-> t.rates[d]]

Item(kind, id, i, j, name, rate) ==
    [kind |-> kind, id |-> id, i |-> i, j |-> j, device_name |-> name, rate |-> rate]

\* main.rs:108-137  the submenu of monitor i: an item per cached rate, or the
\* item "No rates"
SubmenuItems(i, device, cache) ==
    IF device.device_name \notin DOMAIN cache \/ cache[device.device_name] = <<>>
    THEN { Item("No rates", 0, i, 0, device.device_name, 0) }
    ELSE { Item("rate", ItemId(i, j), i, j, device.device_name,
                cache[device.device_name][j + 1]) :
              j \in 0 .. Len(cache[device.device_name]) - 1 }

\* main.rs:148-151  the Exit item
ExitItem == Item("Exit", MENU_EXIT_ID, 0, 0, <<>>, 0)

\* main.rs:93-151  the popup menu: "No monitors found" or a submenu per
\* monitor whose CreatePopupMenu did not fail (the monitors in failed are
\* skipped by the continue at main.rs:103), then the separator and Exit
MenuItems(devs, cache, failed) ==
    (IF devs = <<>>
     THEN { Item("No monitors found", 0, 0, 0, <<>>, 0) }
     ELSE UNION { SubmenuItems(i, devs[i + 1], cache) :
                     i \in (0 .. Len(devs) - 1) \ failed })
    \cup { ExitItem }

\* main.rs:62-171  a right-click on the tray icon: both caches are replaced
\* by what the platform reports now, the menu is built from them and
\* TrackPopupMenuEx is entered.  When the handler runs inside the
\* TrackPopupMenuEx of an earlier right-click, the platform refuses the
\* second popup (ERROR_POPUP_ALREADY_ACTIVE): the new menu is destroyed at
\* once and the earlier one stays on the screen.
HandleRightClick(failed) ==
    /\ Dispatched("WM_APP_NOTIFYICON")
    /\ Head(queue).lparam = "WM_RBUTTONUP"
    /\ failed \subseteq 0 .. Len(topology.devices) - 1
    /\ queue' = Tail(queue)
    /\ ALL_DISPLAY_DEVICES' = <<topology.devices>>
    /\ DEVICE_REFRESH_RATES' = RatesOfDevices(topology.devices, topology)
    /\ IF upc = "loop"
       THEN /\ menu' = <<[items |-> MenuItems(topology.devices, DEVICE_REFRESH_RATES', failed),
                          devices |-> topology.devices,
                          rates |-> DEVICE_REFRESH_RATES']>>
            /\ upc' = "track"
       ELSE UNCHANGED <<menu, upc>>
    /\ lastCommand' = NoCommand
    /\ lastBuild' = <<topology>>
    /\ UNCHANGED <<topology, hwnd, quitPosted, mutex, setCall>>

\* main.rs:157-170  the user selects an item: the platform posts WM_COMMAND
\* with the id of the item in the low word of wparam, TrackPopupMenuEx
\* returns, the menu is destroyed and the handler returns
MenuSelect(it) ==
    /\ upc = "track"
    /\ setCall = <<>>
    /\ menu # <<>>
    /\ it \in menu[1].items
    /\ Len(queue) < MaxQueue
    /\ queue' = Append(queue,
                       Message("WM_COMMAND", LOWORD(it.id), 0, <<it>>,
                               <<[devices |-> menu[1].devices, rates |-> menu[1].rates]>>))
    /\ menu' = <<>>
    /\ upc' = "loop"
    /\ UNCHANGED <<ALL_DISPLAY_DEVICES, DEVICE_REFRESH_RATES, topology, hwnd, quitPosted,
                   lastCommand, lastBuild, mutex, setCall>>

\* main.rs:157-170  the user clicks elsewhere, or the popup cannot be shown:
\* TrackPopupMenuEx returns with nothing selected
MenuDismiss ==
    /\ upc = "track"
    /\ setCall = <<>>
    /\ menu' = <<>>
    /\ upc' = "loop"
    /\ UNCHANGED <<ALL_DISPLAY_DEVICES, DEVICE_REFRESH_RATES, topology, queue, hwnd,
                   quitPosted, lastCommand, lastBuild, mutex, setCall>>

Effect(set, quit, error) == [set |-> set, quit |-> quit, error |-> error]

\* main.rs:175-210  what the WM_COMMAND handler does with a menu id, given
\* the two caches: the call of set_display_refresh_rate it makes (<<>> for
\* none), whether it calls PostQuitMessage, and the error it prints
CommandEffect(menu_id, cached_devices, cached_rates) ==
    IF menu_id >= MENU_REFRESH_RATE_BASE_ID
    THEN IF cached_devices = <<>>
         THEN Effect(<<>>, FALSE, "Display devices not available")
         ELSE IF ~(MonitorIndex(menu_id) < Len(cached_devices[1]))
         THEN Effect(<<>>, FALSE, "Monitor index out of bounds")
         ELSE LET device == cached_devices[1][MonitorIndex(menu_id) + 1]
              IN IF device.device_name \notin DOMAIN cached_rates
                 THEN Effect(<<>>, FALSE, "Refresh rates not found for device")
                 ELSE LET rates == cached_rates[device.device_name]
                      IN IF RateIndex(menu_id) < Len(rates)
                         THEN Effect(<<[device |-> device.device_name,
                                        rate |-> SelectedRate(rates, RateIndex(menu_id))]>>,
                                     FALSE, "")
                         ELSE Effect(<<>>, FALSE, "Refresh rate index out of bounds")
    ELSE IF menu_id = MENU_EXIT_ID
    THEN Effect(<<>>, TRUE, "")
    ELSE Effect(<<>>, FALSE, "")

\* main.rs:179-187  the handler gets as far as DEVICE_REFRESH_RATES.lock()
TakesLock(menu_id, cached_devices) ==
    /\ menu_id >= MENU_REFRESH_RATE_BASE_ID
    /\ cached_devices # <<>>
    /\ MonitorIndex(menu_id) < Len(cached_devices[1])

\* What the thread becomes when it locks the std::sync::Mutex it already
\* holds: the call does not return, it blocks for ever or panics.
Relocked == {"deadlock", "panic"}

\* main.rs:175-210  the WM_COMMAND handler run on message m.  When it gets to
\* the lock while the Mutex is held, the thread is lost.  Else the command
\* is recorded; when it calls set_display_refresh_rate, the thread is inside
\* that call with the guard alive, else the handler has returned (a guard
\* taken at main.rs:187 is dropped at the end of its block, main.rs:197: it
\* is alive while set_display_refresh_rate runs).
RunCommand(m) ==
    LET menu_id == LOWORD(m.wparam)
        effect == CommandEffect(menu_id, ALL_DISPLAY_DEVICES, DEVICE_REFRESH_RATES)
    IN IF TakesLock(menu_id, ALL_DISPLAY_DEVICES) /\ mutex = "locked"
       THEN /\ upc' \in Relocked
            /\ UNCHANGED <<quitPosted, lastCommand, mutex, setCall>>
       ELSE /\ quitPosted' = (quitPosted \/ effect.quit)
            /\ lastCommand' =
                  [valid |-> TRUE, menu_id |-> menu_id,
                   item |-> m.item, built |-> m.built,
                   seen |-> [devices |-> ALL_DISPLAY_DEVICES, rates |-> DEVICE_REFRESH_RATES],
                   set |-> effect.set, quit |-> effect.quit, error |-> effect.error]
            /\ IF effect.set # <<>>
               THEN mutex' = "locked" /\ setCall' = effect.set
               ELSE UNCHANGED <<mutex, setCall>>
            /\ UNCHANGED upc

\* main.rs:175-210  WM_COMMAND
HandleCommand ==
    /\ Dispatched("WM_COMMAND")
    /\ queue' = Tail(queue)
    /\ RunCommand(Head(queue))
    /\ UNCHANGED <<ALL_DISPLAY_DEVICES, DEVICE_REFRESH_RATES, topology, menu, hwnd,
                   lastBuild>>

\* main.rs:191-209  set_display_refresh_rate returns (its result is dropped),
\* the guard is dropped and the handler returns 0
SetReturns ==
    /\ upc \in {"loop", "track"}
    /\ setCall # <<>>
    /\ setCall' = <<>>
    /\ mutex' = "unlocked"
    /\ UNCHANGED <<upc, ALL_DISPLAY_DEVICES, DEVICE_REFRESH_RATES, topology, queue, menu,
                   hwnd, quitPosted, lastCommand, lastBuild>>

\* While the thread is inside ChangeDisplaySettingsExW, which sends messages
\* to the windows and waits for them, a WM_COMMAND another program sent to
\* the window is delivered: wnd_proc runs on it inside the call.
SentCommand(w) ==
    /\ upc \in {"loop", "track"}
    /\ setCall # <<>>
    /\ hwnd = "HWND"
    /\ RunCommand(Message("WM_COMMAND", w, 0, <<>>, <<>>))
    /\ UNCHANGED <<ALL_DISPLAY_DEVICES, DEVICE_REFRESH_RATES, topology, queue, menu, hwnd,
                   lastBuild>>

\* main.rs:62-80  the same for a right-click notification that was sent: the
\* handler creates its menu, replaces the device list and gets to
\* DEVICE_REFRESH_RATES.lock() while the guard of the WM_COMMAND handler is
\* alive.
SentRightClick ==
    /\ upc \in {"loop", "track"}
    /\ setCall # <<>>
    /\ hwnd = "HWND"
    /\ mutex = "locked"
    /\ ALL_DISPLAY_DEVICES' = <<topology.devices>>
    /\ lastCommand' = NoCommand
    /\ upc' \in Relocked
    /\ UNCHANGED <<DEVICE_REFRESH_RATES, topology, queue, menu, hwnd, quitPosted,
                   lastBuild, mutex, setCall>>

\* main.rs:211-226  WM_CLOSE goes to DefWindowProcW, which destroys the
\* window: the messages waiting for it are dropped, a menu on the screen is
\* closed, and the WM_DESTROY handler removes the icon and calls
\* PostQuitMessage
HandleClose ==
    /\ Dispatched("WM_CLOSE")
    /\ queue' = <<>>
    /\ menu' = <<>>
    /\ upc' = "loop"
    /\ hwnd' = "destroyed"
    /\ quitPosted' = TRUE
    /\ UNCHANGED <<ALL_DISPLAY_DEVICES, DEVICE_REFRESH_RATES, topology, lastCommand,
                   lastBuild, mutex, setCall>>

\* main.rs:286-290  GetMessageW returns 0 (WM_QUIT: a quit was posted and no
\* message is waiting) and the loop is left
LoopExit ==
    /\ upc = "loop"
    /\ setCall = <<>>
    /\ queue = <<>>
    /\ quitPosted
    /\ upc' = "exited"
    /\ UNCHANGED <<ALL_DISPLAY_DEVICES, DEVICE_REFRESH_RATES, topology, queue, menu, hwnd,
                   quitPosted, lastCommand, lastBuild, mutex, setCall>>

\* ========================================================================
\* Specifications
\* ========================================================================
ratesVars == <<rpc, mode_num, refresh_rates, sorted_rates, modeLog, modeReq>>
setVars == <<spc, device_name, refresh_rate, changeCalls, log, curFreq, last, prev>>

enumVars == <<epc, devices, origin, enumLocals, enumLogs, enumHandle>>

uiVars == <<upc, ALL_DISPLAY_DEVICES, DEVICE_REFRESH_RATES, topology, queue, menu, hwnd,
            quitPosted, lastCommand, lastBuild, mutex, setCall>>

vars == <<ratesVars, dev_mode, setVars, enumVars, uiVars>>

\* get_available_refresh_rates is not running
RatesIdle ==
    /\ rpc = "done"
    /\ mode_num = 0
    /\ refresh_rates = {}
    /\ sorted_rates = <<>>
    /\ modeLog = <<>>
    /\ modeReq = <<>>

\* set_display_refresh_rate is not running and the platform has one device
SetIdle ==
    /\ spc = "idle"
    /\ device_name = <<>>
    /\ refresh_rate = 0
    /\ changeCalls = <<>>
    /\ log = <<>>
    /\ curFreq = [d \in DeviceNames |-> 1]
    /\ last = NoCall
    /\ prev = Summary(NoCall)

\* get_all_display_devices is not running
EnumIdle ==
    /\ epc = "done"
    /\ devices = <<>>
    /\ origin = <<>>
    /\ hdevinfo = "unset"
    /\ adapter_idx = 0
    /\ adapter_device = ZeroedAdapter
    /\ adapter_device_name = <<>>
    /\ monitor_idx = 0
    /\ monitor_device = ZeroedMonitor
    /\ monitor_display_name = <<>>
    /\ monitor_display_name_candidate = <<>>
    /\ info_idx = 0
    /\ buffer = <<>>
    /\ required_size = 0
    /\ devInfoSet = "none"
    /\ devInfoList = <<>>
    /\ destroyCalls = 0
    /\ invalidUse = FALSE
    /\ adapterLog = <<>>
    /\ monitorLog = <<>>
    /\ adapterReq = <<>>
    /\ monitorReq = <<>>
    /\ devInfoReq = <<>>
    /\ propReads = <<>>

\* The tray window is not running
UiIdle ==
    /\ upc = "exited"
    /\ ALL_DISPLAY_DEVICES = <<>>
    /\ DEVICE_REFRESH_RATES = NoEntries
    /\ topology = Topology(<<>>, <<>>, <<>>)
    /\ queue = <<>>
    /\ menu = <<>>
    /\ hwnd = "destroyed"
    /\ quitPosted = FALSE
    /\ lastCommand = NoCommand
    /\ lastBuild = <<>>
    /\ mutex = "unlocked"
    /\ setCall = <<>>

\* None of the library functions is running by itself
LibIdle == RatesIdle /\ SetIdle /\ EnumIdle /\ dev_mode = ZeroedDevMode
libVars == <<ratesVars, dev_mode, setVars, enumVars>>

RatesInit == RatesStart /\ dev_mode = ZeroedDevMode /\ SetIdle /\ EnumIdle /\ UiIdle

RatesNext ==
    \/ \E f \in Freqs : EnumModeOk(f) /\ UNCHANGED <<setVars, enumVars, uiVars>>
    \/ EnumModeEnd /\ UNCHANGED <<setVars, enumVars, uiVars>>

SpecRates == RatesInit /\ [][RatesNext]_vars

SetInit == SetStart /\ dev_mode = ZeroedDevMode /\ RatesIdle /\ EnumIdle /\ UiIdle

SetNext ==
    \/ \E d \in DeviceNames, r \in Rates : SetCall(d, r) /\ UNCHANGED <<ratesVars, enumVars, uiVars>>
    \/ \E e \in LastErrors : ReadFailed(e) /\ UNCHANGED <<ratesVars, enumVars, uiVars>>
    \/ \E fs \in PlatformFields : ReadOk(fs) /\ UNCHANGED <<ratesVars, enumVars, uiVars>>
    \/ \E c \in ChangeCodes, e \in LastErrors : ChangeReturned(c, e) /\ UNCHANGED <<ratesVars, enumVars, uiVars>>
    \/ \E d \in DeviceNames, f \in Rates : ExternalModeChange(d, f) /\ UNCHANGED <<ratesVars, enumVars, uiVars>>

SpecSet == SetInit /\ [][SetNext]_vars

EnumInit == EnumStart /\ dev_mode = ZeroedDevMode /\ RatesIdle /\ SetIdle /\ UiIdle

EnumNext ==
    \/ OpenFailed /\ UNCHANGED <<ratesVars, dev_mode, setVars, uiVars>>
    \/ \E list \in DevInfoLists : OpenOk(list) /\ UNCHANGED <<ratesVars, dev_mode, setVars, uiVars>>
    \/ \E fl \in AdapterFlagSets : EnumAdapterOk(fl) /\ UNCHANGED <<ratesVars, dev_mode, setVars, uiVars>>
    \/ EnumAdapterEnd /\ UNCHANGED <<ratesVars, dev_mode, setVars, uiVars>>
    \/ \E fl \in MonitorFlagSets : EnumMonitorOk(fl) /\ UNCHANGED <<ratesVars, dev_mode, setVars, uiVars>>
    \/ EnumMonitorEnd /\ UNCHANGED <<ratesVars, dev_mode, setVars, uiVars>>
    \/ EnumDeviceInfo /\ UNCHANGED <<ratesVars, dev_mode, setVars, uiVars>>
    \/ ReadFriendlyName /\ UNCHANGED <<ratesVars, dev_mode, setVars, uiVars>>
    \/ ReadDescription /\ UNCHANGED <<ratesVars, dev_mode, setVars, uiVars>>
    \/ DestroyList /\ UNCHANGED <<ratesVars, dev_mode, setVars, uiVars>>

SpecEnum == EnumInit /\ [][EnumNext]_vars

UiInit == UiStart /\ topology \in Topologies /\ LibIdle

UiNext ==
    \/ PostRightClick /\ UNCHANGED libVars
    \/ \E w \in ForeignParams : PostCommand(w) /\ UNCHANGED libVars
    \/ PostClose /\ UNCHANGED libVars
    \/ \E t \in Topologies : TopologyChange(t) /\ UNCHANGED libVars
    \/ HandleRightClickNoMenu /\ UNCHANGED libVars
    \/ \E failed \in SUBSET (0 .. 1) : HandleRightClick(failed) /\ UNCHANGED libVars
    \/ \E it \in (IF menu = <<>> THEN {} ELSE menu[1].items) : MenuSelect(it) /\ UNCHANGED libVars
    \/ MenuDismiss /\ UNCHANGED libVars
    \/ HandleCommand /\ UNCHANGED libVars
    \/ SetReturns /\ UNCHANGED libVars
    \/ \E w \in ForeignParams : SentCommand(w) /\ UNCHANGED libVars
    \/ SentRightClick /\ UNCHANGED libVars
    \/ HandleClose /\ UNCHANGED libVars
    \/ LoopExit /\ UNCHANGED libVars

SpecUI == UiInit /\ [][UiNext]_vars

\* One topology with a long rate list; a right-click is handled when nothing
\* else is waiting, every submenu is created, and the user selects an item
\* or dismisses the menu.
MenuIdsInit == UiStart /\ topology \in WideTopologies /\ LibIdle

MenuIdsNext ==
    \/ queue = <<>> /\ upc = "loop" /\ PostRightClick /\ UNCHANGED libVars
    \/ HandleRightClick({}) /\ UNCHANGED libVars
    \/ \E it \in (IF menu = <<>> THEN {} ELSE menu[1].items) : MenuSelect(it) /\ UNCHANGED libVars
    \/ MenuDismiss /\ UNCHANGED libVars
    \/ HandleCommand /\ UNCHANGED libVars
    \/ SetReturns /\ UNCHANGED libVars

SpecMenuIds == MenuIdsInit /\ [][MenuIdsNext]_vars

\* ------------------------------------------------------------------------
\* C1: for every sequence of mode records the platform returns, the sequence
\* returned by get_available_refresh_rates is strictly ascending, has no
\* duplicates and has no value <= 1; a device that reports only the
\* frequencies 0 and 1 yields the empty sequence.
\* ------------------------------------------------------------------------
StrictlyAscending(s) == \A i \in 1 .. Len(s) - 1 : s[i] < s[i + 1]
NoDuplicates(s) == \A i, j \in 1 .. Len(s) : i # j => s[i] # s[j]

C1_RatesAscendingDistinctAboveOne ==
    rpc = "done" =>
        /\ StrictlyAscending(sorted_rates)
        /\ NoDuplicates(sorted_rates)
        /\ \A i \in 1 .. Len(sorted_rates) : sorted_rates[i] > 1
        /\ (Range(modeLog) \subseteq {0, 1} => sorted_rates = <<>>)

\* A call that saw a repeated frequency, a frequency <= 1 and frequencies in
\* descending order, and returned at least two rates.
C1_Witness ==
    /\ rpc = "done"
    /\ Len(sorted_rates) >= 2
    /\ \E i, j \in 1 .. Len(modeLog) : i < j /\ modeLog[i] = modeLog[j] /\ modeLog[i] > 1
    /\ \E i, j \in 1 .. Len(modeLog) : i < j /\ modeLog[i] > modeLog[j] /\ modeLog[j] > 1
    /\ \E i \in 1 .. Len(modeLog) : modeLog[i] <= 1

\* ------------------------------------------------------------------------
\* Two calls of set_display_refresh_rate in succession for the same device
\* and rate, with no mode change from outside between them.
\* ------------------------------------------------------------------------
TwoCallsSameRequest ==
    /\ prev.valid /\ last.valid
    /\ prev.device = last.device
    /\ prev.rate = last.rate

LastLine(c) == c.log[Len(c.log)]

\* ------------------------------------------------------------------------
\* C2: if the current-settings read succeeds and the current refresh rate
\* equals the requested rate, set_display_refresh_rate returns success (true)
\* and ChangeDisplaySettingsExW is not invoked during that call.
\* ------------------------------------------------------------------------
C2_NoChangeWhenAlreadyAtRate ==
    (last.valid /\ last.read = "ok" /\ last.current = <<last.rate>>) =>
        /\ last.ret = TRUE
        /\ last.changes = <<>>
        /\ last.code = <<>>

\* A call that found the requested rate already set, after a call that did not.
C2_Witness ==
    /\ last.valid /\ last.read = "ok" /\ last.current = <<last.rate>>
    /\ last.ret = TRUE
    /\ prev.valid /\ prev.code # <<>>

\* ------------------------------------------------------------------------
\* C3 as stated: for every device d and rate r, two calls set_refresh_rate(d, r)
\* in succession with no intervening change both return success, and the
\* second performs no mode-change request.
\* ------------------------------------------------------------------------
C3_Original_BothSucceedSecondIsNoOp ==
    TwoCallsSameRequest =>
        /\ prev.ret = TRUE
        /\ last.ret = TRUE
        /\ last.changes = <<>>

\* C3 as amended: if set_refresh_rate(d, r) returned success because the rate
\* was already r or because the change primitive reported the successful
\* code, then the call set_refresh_rate(d, r) that follows it with no
\* intervening mode change, and whose current-settings read succeeds, returns
\* success and performs no mode-change request.
C3_SecondCallIsNoOpAfterAppliedChange ==
    ( /\ TwoCallsSameRequest
      /\ prev.ret = TRUE
      /\ prev.code \in { <<>>, <<DISP_CHANGE_SUCCESSFUL>> }
      /\ last.read = "ok" ) =>
        /\ last.ret = TRUE
        /\ last.changes = <<>>

\* The first call changed the rate, the second found it set.
C3_Witness ==
    /\ TwoCallsSameRequest
    /\ prev.code = <<DISP_CHANGE_SUCCESSFUL>>
    /\ last.read = "ok" /\ last.ret = TRUE /\ last.changes = <<>>

C5_SuccessOnlyWhenDone ==
    last.valid =>
        /\ last.ret = TRUE =>
              /\ last.read = "ok"
              /\ \/ last.current = <<last.rate>>
                 \/ last.code \in { <<DISP_CHANGE_SUCCESSFUL>>, <<DISP_CHANGE_RESTART>> }
        /\ ( \/ last.read = "failed"
             \/ (last.code # <<>> /\ last.code[1] \in OtherChangeCodes) ) => last.ret = FALSE

\* A rejected change after a failed read.
C5_Witness ==
    /\ last.valid /\ last.code # <<>> /\ last.code[1] \in OtherChangeCodes
    /\ last.ret = FALSE
    /\ prev.valid /\ prev.read = "failed" /\ prev.ret = FALSE

\* ------------------------------------------------------------------------
\* C6: when the current-settings read fails, set_display_refresh_rate returns
\* failure and neither modifies the settings structure nor invokes the
\* mode-change primitive in that call.
\* ------------------------------------------------------------------------
C6_FailedReadChangesNothing ==
    (last.valid /\ last.read = "failed") =>
        /\ last.ret = FALSE
        /\ last.dev_mode = ZeroedDevMode
        /\ last.changes = <<>>
        /\ last.code = <<>>

\* A failed read for a device whose rate differs from the requested one.
C6_Witness ==
    /\ last.valid /\ last.read = "failed"
    /\ curFreq[last.device] # last.rate

AdapterEntry(a) == CHOOSE e \in Range(adapterLog) : e.idx = a
MonitorEntry(a, m) == CHOOSE e \in Range(monitorLog) : e.adapter = a /\ e.idx = m

AdapterReported(a) == \E e \in Range(adapterLog) : e.idx = a
MonitorReported(a, m) == \E e \in Range(monitorLog) : e.adapter = a /\ e.idx = m

\* The monitors reported active, of adapters reported attached, in the order
\* in which the platform reported them
ActiveOfAttached(e) ==
    /\ DISPLAY_DEVICE_ACTIVE \in e.flags
    /\ AdapterReported(e.adapter)
    /\ DISPLAY_DEVICE_ATTACHED_TO_DESKTOP \in AdapterEntry(e.adapter).flags
ActivePairs == SelectSeq(monitorLog, ActiveOfAttached)

\* Every read of a name failed: the set has no entry, or both property reads
\* of its first entry fail
NameReadsAllFail ==
    \/ devInfoList = <<>>
    \/ (devInfoList[1].friendly = <<>> /\ devInfoList[1].desc = <<>>)

\* ------------------------------------------------------------------------
\* C8: the result of get_all_display_devices has no entry for an adapter
\* whose state lacks the attached-to-desktop flag (its monitors are not even
\* enumerated) and no entry for a monitor whose state lacks the active flag,
\* even when the platform enumerates that adapter or monitor.
\* ------------------------------------------------------------------------
C8_OnlyAttachedAdaptersAndActiveMonitors ==
    /\ \A k \in 1 .. Len(devices) :
          /\ AdapterReported(origin[k][1])
          /\ DISPLAY_DEVICE_ATTACHED_TO_DESKTOP \in AdapterEntry(origin[k][1]).flags
          /\ MonitorReported(origin[k][1], origin[k][2])
          /\ DISPLAY_DEVICE_ACTIVE \in MonitorEntry(origin[k][1], origin[k][2]).flags
    /\ \A e \in Range(adapterLog) :
          DISPLAY_DEVICE_ATTACHED_TO_DESKTOP \notin e.flags =>
              /\ \A k \in 1 .. Len(devices) : devices[k].device_name # e.name
              /\ \A r \in Range(monitorReq) : r.device # e.name
              /\ \A m \in Range(monitorLog) : m.adapter # e.idx
    /\ \A m \in Range(monitorLog) :
          DISPLAY_DEVICE_ACTIVE \notin m.flags =>
              \A k \in 1 .. Len(devices) : origin[k] # <<m.adapter, m.idx>>

\* A finished pass in which the platform reported an adapter that is not
\* attached, an inactive monitor of an attached adapter, and an active monitor.
C8_Witness ==
    /\ epc = "done"
    /\ \E e \in Range(adapterLog) : DISPLAY_DEVICE_ATTACHED_TO_DESKTOP \notin e.flags
    /\ \E m \in Range(monitorLog) : DISPLAY_DEVICE_ACTIVE \notin m.flags
    /\ Len(devices) >= 1

\* ------------------------------------------------------------------------
\* C9: when the device-class handle opens, get_all_display_devices returns
\* exactly one DisplayDevice per (attached adapter, active monitor) pair
\* enumerated before the first failing index of each enumeration, in adapter
\* order and then monitor order, each with the adapter's device name as
\* device_name; a monitor whose name reads all fail still appears, with the
\* raw monitor description as display_name.
\* ------------------------------------------------------------------------
C9_OneDevicePerActivePairInOrder ==
    (epc = "done" /\ hdevinfo = "HDEVINFO") =>
        /\ Len(devices) = Len(ActivePairs)
        /\ \A k \in 1 .. Len(devices) :
              /\ origin[k] = <<ActivePairs[k].adapter, ActivePairs[k].idx>>
              /\ devices[k].device_name = AdapterEntry(ActivePairs[k].adapter).name
              /\ NameReadsAllFail => devices[k].display_name = ActivePairs[k].string
        /\ \A k \in 1 .. Len(devices) - 1 :
              \/ origin[k][1] < origin[k + 1][1]
              \/ (origin[k][1] = origin[k + 1][1] /\ origin[k][2] < origin[k + 1][2])

\* A finished pass with an attached adapter that has two active monitors, an
\* adapter that is not attached, and a first device-info entry whose two
\* property reads fail.
C9_Witness ==
    /\ epc = "done" /\ hdevinfo = "HDEVINFO"
    /\ Len(devices) >= 2
    /\ devices[1].device_name = devices[2].device_name
    /\ \E e \in Range(adapterLog) : DISPLAY_DEVICE_ATTACHED_TO_DESKTOP \notin e.flags
    /\ devInfoList # <<>> /\ NameReadsAllFail
    /\ devices[1].display_name = MonitorString(origin[1][1], origin[1][2])

\* ------------------------------------------------------------------------
\* C10: in every execution of get_all_display_devices the device-class
\* enumeration handle is released exactly once if the open succeeded and
\* never if the open failed, on every exit path, and no property read or
\* device-info enumeration uses the handle after it is released.
\* ------------------------------------------------------------------------
C10_HandleReleasedExactlyOnce ==
    /\ destroyCalls <= 1
    /\ ~invalidUse
    /\ (hdevinfo = "HDEVINFO" /\ epc # "done") => (devInfoSet = "open" /\ destroyCalls = 0)
    /\ epc = "done" =>
          /\ hdevinfo = "INVALID_HANDLE_VALUE" => (destroyCalls = 0 /\ devInfoSet = "none")
          /\ hdevinfo = "HDEVINFO" => (destroyCalls = 1 /\ devInfoSet = "destroyed")

\* A finished pass that read properties through the handle, ended a monitor
\* enumeration and released the handle.
C10_Witness ==
    /\ epc = "done"
    /\ hdevinfo = "HDEVINFO"
    /\ destroyCalls = 1
    /\ propReads # <<>>
    /\ Len(monitorReq) > Len(monitorLog)

\* ------------------------------------------------------------------------
\* The raw description the platform reported for the monitor the k-th
\* element of the result was built from.
\* ------------------------------------------------------------------------
RawDescription(k) == MonitorEntry(origin[k][1], origin[k][2]).string

\* No name resolution is in progress: every active monitor seen so far has
\* its element in the result.
BetweenMonitors == epc \in {"adapters", "monitors", "destroy", "done"}

\* ------------------------------------------------------------------------
\* C11: when the device-information set was opened and has no entry, every
\* active monitor gets the raw description the platform reported for it,
\* unchanged, as its display name, and no property read is attempted.
\* ------------------------------------------------------------------------
C11_EmptySetKeepsRawDescription ==
    (hdevinfo = "HDEVINFO" /\ devInfoList = <<>>) =>
        /\ propReads = <<>>
        /\ \A k \in 1 .. Len(devices) : devices[k].display_name = RawDescription(k)
        /\ (BetweenMonitors => Len(devices) = Len(ActivePairs))

\* A finished pass over an empty device-information set that found two
\* active monitors and asked the set for its first entry for each.
C11_Witness ==
    /\ epc = "done"
    /\ hdevinfo = "HDEVINFO"
    /\ devInfoList = <<>>
    /\ Len(devices) >= 2
    /\ Len(devInfoReq) = Len(devices)

\* ------------------------------------------------------------------------
\* What the first entry of the device-information set answers, as the
\* platform has it: a property is usable when its read succeeds with a text
\* that is not empty and is not "Generic PnP Monitor".
\* ------------------------------------------------------------------------
Usable(answer) == answer # <<>> /\ answer[1] # <<>> /\ answer[1] # GENERIC_PNP_MONITOR
FriendlyUsable == devInfoList # <<>> /\ Usable(devInfoList[1].friendly)
DescriptionUsable == devInfoList # <<>> /\ Usable(devInfoList[1].desc)
ReadsOf(prop) == SelectSeq(propReads, LAMBDA r : r.prop = prop)

\* ------------------------------------------------------------------------
\* C12: when the device-information set has an entry, the display name is the
\* friendly name if usable, else the device description if usable, else the
\* raw description of the monitor; the description is read exactly when the
\* friendly name gave nothing usable, and a failed read is not an error: the
\* monitor still gets its element.
\* ------------------------------------------------------------------------
C12_FriendlyThenDescriptionThenRaw ==
    devInfoList # <<>> =>
        /\ \A k \in 1 .. Len(devices) :
              devices[k].display_name =
                 IF FriendlyUsable THEN devInfoList[1].friendly[1]
                 ELSE IF DescriptionUsable THEN devInfoList[1].desc[1]
                 ELSE RawDescription(k)
        /\ BetweenMonitors =>
              /\ Len(devices) = Len(ActivePairs)
              /\ Len(ReadsOf("CM_DRP_FRIENDLYNAME")) = Len(devices)
              /\ Len(ReadsOf("CM_DRP_DEVICEDESC")) =
                    IF FriendlyUsable THEN 0 ELSE Len(devices)
        /\ \A n \in 1 .. Len(propReads) :
              propReads[n].prop = "CM_DRP_DEVICEDESC" =>
                 n > 1 /\ propReads[n - 1].prop = "CM_DRP_FRIENDLYNAME"

\* A finished pass in which the friendly name was the generic one, the
\* description was read and gave the name of the monitor.
C12_Witness ==
    /\ epc = "done"
    /\ devInfoList # <<>>
    /\ devInfoList[1].friendly = <<GENERIC_PNP_MONITOR>>
    /\ DescriptionUsable
    /\ devices # <<>>
    /\ devices[1].display_name = devInfoList[1].desc[1]
    /\ Len(ReadsOf("CM_DRP_DEVICEDESC")) = Len(devices)

\* ------------------------------------------------------------------------
\* C13: get_available_refresh_rates asks for the mode indices 0, 1, 2, ... in
\* order, stops at the first index the platform fails, asks for nothing after
\* it, and returns exactly the frequencies > 1 among the modes before it.
\* ------------------------------------------------------------------------
C13_IndicesInOrderUntilFirstFailure ==
    /\ \A k \in 1 .. Len(modeReq) : modeReq[k] = k - 1
    /\ rpc = "enum" => Len(modeReq) = Len(modeLog) /\ mode_num = Len(modeLog)
    /\ rpc = "done" =>
          /\ Len(modeReq) = Len(modeLog) + 1
          /\ Range(sorted_rates) = {f \in Range(modeLog) : f > 1}

\* A finished call whose third request failed, after a mode of frequency 1
\* and a mode of a frequency above 1.
C13_Witness ==
    /\ rpc = "done"
    /\ modeReq = <<0, 1, 2>>
    /\ 1 \in Range(modeLog)
    /\ sorted_rates # <<>>

\* ------------------------------------------------------------------------
\* C14: a call of set_display_refresh_rate makes at most one change request,
\* only after a successful read, for the device name it was given, with the
\* requested rate in the frequency field, the frequency flag set and in
\* immediate mode; a result that is not a success is followed by no retry
\* and no rollback.
\* ------------------------------------------------------------------------
WellFormedRequest(req, d, r) ==
    /\ req.device = d
    /\ req.dev_mode.dmDisplayFrequency = r
    /\ DM_DISPLAYFREQUENCY \in req.dev_mode.dmFields
    /\ req.dwflags = {}

C14_OneImmediateChangeRequest ==
    /\ Len(changeCalls) <= 1
    /\ (changeCalls # <<>>) <=> (spc = "change")
    /\ changeCalls # <<>> => WellFormedRequest(changeCalls[1], device_name, refresh_rate)
    /\ last.valid =>
          /\ Len(last.changes) <= 1
          /\ (last.changes # <<>>) <=> (last.code # <<>>)
          /\ last.changes # <<>> =>
                /\ last.read = "ok"
                /\ last.current # <<>> /\ last.current[1] # last.rate
                /\ WellFormedRequest(last.changes[1], last.device, last.rate)

\* A returned call whose change request failed.
C14_Witness ==
    /\ last.valid
    /\ last.code # <<>>
    /\ last.code[1] \in OtherChangeCodes
    /\ ~last.ret
    /\ Len(last.changes) = 1

\* ------------------------------------------------------------------------
\* C15: when the device-information set cannot be opened,
\* get_all_display_devices returns the empty sequence and asks the platform
\* for no adapter, no monitor, no entry of the set and no property.
\* ------------------------------------------------------------------------
C15_FailedOpenReturnsEmpty ==
    hdevinfo = "INVALID_HANDLE_VALUE" =>
        /\ epc = "done"
        /\ devices = <<>>
        /\ adapterReq = <<>> /\ monitorReq = <<>>
        /\ devInfoReq = <<>> /\ propReads = <<>>
        /\ destroyCalls = 0

\* The open failed and the function returned.
C15_Witness ==
    /\ epc = "done"
    /\ hdevinfo = "INVALID_HANDLE_VALUE"
    /\ devices = <<>>

\* ------------------------------------------------------------------------
\* C16: only the entry 0 of the device-information set is ever asked for or
\* read, and when it gives a usable name every active monitor gets that same
\* display name.
\* ------------------------------------------------------------------------
C16_OnlyFirstEntryConsulted ==
    /\ \A n \in 1 .. Len(devInfoReq) : devInfoReq[n] = 0
    /\ \A n \in 1 .. Len(propReads) : propReads[n].entry = 0
    /\ (FriendlyUsable \/ DescriptionUsable) =>
          \A k, l \in 1 .. Len(devices) : devices[k].display_name = devices[l].display_name

\* A finished pass over a set of two entries: two active monitors with
\* different raw descriptions got the same display name.
C16_Witness ==
    /\ epc = "done"
    /\ Len(devInfoList) >= 2
    /\ FriendlyUsable
    /\ Len(devices) >= 2
    /\ RawDescription(1) # RawDescription(2)
    /\ devices[1].display_name = devices[2].display_name
    /\ Len(devInfoReq) = Len(devices)

\* ------------------------------------------------------------------------
\* The WM_COMMAND handled last came from an item of a popup menu; the caches
\* it was decoded against are the ones its menu was built from; what the
\* item displayed.
\* ------------------------------------------------------------------------
FromItem(c, kind) == c.valid /\ c.item # <<>> /\ c.item[1].kind = kind
SameSnapshot(c) ==
    /\ c.built # <<>>
    /\ c.seen.devices = <<c.built[1].devices>>
    /\ c.seen.rates = c.built[1].rates
Displayed(it) == [device |-> it.device_name, rate |-> it.rate]

\* ------------------------------------------------------------------------
\* C17: when wnd_proc handles a WM_COMMAND whose menu id is MENU_EXIT_ID, it
\* posts the quit message (after which the message loop can only run out of
\* messages and exit) and it does not call set_display_refresh_rate.
\* ------------------------------------------------------------------------
C17_Original_ExitCommandPostsQuit ==
    (lastCommand.valid /\ lastCommand.menu_id = MENU_EXIT_ID) =>
        /\ lastCommand.quit
        /\ quitPosted
        /\ lastCommand.set = <<>>

\* The user selected Exit, the command was handled, and no quit is posted:
\* the loop goes on.
C17_Witness ==
    /\ FromItem(lastCommand, "Exit")
    /\ lastCommand.menu_id = MENU_EXIT_ID
    /\ ~quitPosted
    /\ upc = "loop"
    /\ lastCommand.error = "Monitor index out of bounds"

\* ------------------------------------------------------------------------
\* C18: the id of every rate item (i, j) of a menu, handled against the
\* caches the menu was built from, makes the call of
\* set_display_refresh_rate with the name of device i and its j-th rate, for
\* every number of devices and of rates; and no two distinct items among the
\* rate items and Exit of a menu have the same id.
\* ------------------------------------------------------------------------
C18_Original_IdsRoundTripAndAreUnique ==
    /\ menu # <<>> =>
          \A a, b \in { it \in menu[1].items : it.kind \in {"rate", "Exit"} } :
              a # b => a.id # b.id
    /\ (FromItem(lastCommand, "rate") /\ SameSnapshot(lastCommand)) =>
          lastCommand.set = <<Displayed(lastCommand.item[1])>>

\* The user selected the item of the rate of index 100 of the first of two
\* displays, nothing was rebuilt in between, and the call made is for the
\* second display.
C18_Witness ==
    /\ FromItem(lastCommand, "rate")
    /\ SameSnapshot(lastCommand)
    /\ lastCommand.item[1].i = 0
    /\ lastCommand.item[1].j = MONITOR_ID_STRIDE
    /\ lastCommand.set # <<>>
    /\ lastCommand.set[1].device = DisplayName(2)

\* ------------------------------------------------------------------------
\* C19: whatever the order of right-clicks, topology changes and selections,
\* the selection of a rate item is decoded against the device list and the
\* rate lists its own menu was built from, and the device name and rate
\* passed to set_display_refresh_rate are the ones the item displayed.
\* ------------------------------------------------------------------------
C19_Original_SelectionDecodedAgainstItsOwnBuild ==
    FromItem(lastCommand, "rate") =>
        /\ SameSnapshot(lastCommand)
        /\ lastCommand.set = <<Displayed(lastCommand.item[1])>>

\* The user selected a rate of the first display; the caches had been
\* rebuilt since the menu was built, and the call made is for the other
\* display.
C19_Witness ==
    /\ FromItem(lastCommand, "rate")
    /\ ~SameSnapshot(lastCommand)
    /\ lastCommand.item[1].device_name = DisplayName(1)
    /\ lastCommand.set # <<>>
    /\ lastCommand.set[1].device = DisplayName(2)

\* ------------------------------------------------------------------------
\* C20: wnd_proc calls set_display_refresh_rate(d, r) only with a device name
\* d of the cached device list and a rate r of the cached rate list of d; a
\* menu id below the base, a missing device list, a monitor index or a rate
\* index out of range lead to no call.
\* ------------------------------------------------------------------------
CachedDeviceNames(c) ==
    IF c.seen.devices = <<>> THEN {}
    ELSE { c.seen.devices[1][k].device_name : k \in 1 .. Len(c.seen.devices[1]) }

IndicesInRange(c) ==
    /\ c.menu_id >= 2000
    /\ c.seen.devices # <<>>
    /\ (c.menu_id - 2000) \div 100 < Len(c.seen.devices[1])
    /\ LET d == c.seen.devices[1][(c.menu_id - 2000) \div 100 + 1].device_name
       IN /\ d \in DOMAIN c.seen.rates
          /\ (c.menu_id - 2000) % 100 < Len(c.seen.rates[d])

C20_SetCallOnlyWithCachedDeviceAndRate ==
    lastCommand.valid =>
        /\ lastCommand.seen = [devices |-> ALL_DISPLAY_DEVICES, rates |-> DEVICE_REFRESH_RATES]
        /\ lastCommand.set # <<>> =>
              /\ lastCommand.set[1].device \in CachedDeviceNames(lastCommand)
              /\ lastCommand.set[1].device \in DOMAIN lastCommand.seen.rates
              /\ lastCommand.set[1].rate \in
                    Range(lastCommand.seen.rates[lastCommand.set[1].device])
        /\ ~IndicesInRange(lastCommand) => lastCommand.set = <<>>

\* A command of another program, with a set high word, made the call for
\* the second rate of the first display.
C20_Witness ==
    /\ lastCommand.valid
    /\ lastCommand.item = <<>>
    /\ lastCommand.menu_id = 2001
    /\ lastCommand.set = <<[device |-> DisplayName(1), rate |-> 120]>>

\* ------------------------------------------------------------------------
\* C21: after every menu build the cached device list is the list the
\* platform reported to that build, whole, and the rates cache has exactly
\* one entry per distinct device name of that list, each the rate list the
\* platform reported to that build, and nothing of an earlier build; the
\* handling of WM_COMMAND changes neither cache.
\* ------------------------------------------------------------------------
DistinctNames(devs) == { devs[k].device_name : k \in 1 .. Len(devs) }

\* (A build that never ends, because the thread is lost at its lock, is not
\* a build the property speaks of.)
C21_CachesAreTheLastBuild ==
    upc \notin Relocked =>
        /\ lastBuild = <<>> =>
              ALL_DISPLAY_DEVICES = <<>> /\ DOMAIN DEVICE_REFRESH_RATES = {}
        /\ lastBuild # <<>> =>
              /\ ALL_DISPLAY_DEVICES = <<lastBuild[1].devices>>
              /\ DOMAIN DEVICE_REFRESH_RATES = DistinctNames(lastBuild[1].devices)
              /\ \A d \in DOMAIN DEVICE_REFRESH_RATES :
                    DEVICE_REFRESH_RATES[d] = lastBuild[1].rates[d]

\* A WM_COMMAND was handled after a build made under the menu of an earlier
\* build: the earlier build had cached the first display, the later one
\* found the second display only, and its entry is the only one.
C21_Witness ==
    /\ lastCommand.valid
    /\ lastCommand.built # <<>>
    /\ DisplayName(1) \in DOMAIN lastCommand.built[1].rates
    /\ lastBuild # <<>>
    /\ Len(lastBuild[1].devices) = 1
    /\ DOMAIN DEVICE_REFRESH_RATES = {DisplayName(2)}
    /\ DEVICE_REFRESH_RATES[DisplayName(2)] = <<60, 75>>

\* ------------------------------------------------------------------------
\* C22: no invocation of wnd_proc locks DEVICE_REFRESH_RATES while the thread
\* holds it, also when a message is delivered while a handler is inside the
\* mode change or the menu tracking; and every guard is released before the
\* handler that took it returns: the thread is never lost on the lock.
\* ------------------------------------------------------------------------
C22_Original_MutexNeverLockedWhileHeld ==
    /\ upc \notin Relocked
    /\ setCall = <<>> => mutex = "unlocked"

\* The thread locked the Mutex again inside set_display_refresh_rate: the
\* guard of the WM_COMMAND handler is alive and the call never returns.
C22_Witness ==
    /\ upc \in Relocked
    /\ mutex = "locked"
    /\ setCall # <<>>
    /\ lastCommand.valid
    /\ lastCommand.set = setCall

\* What does hold: the Mutex is locked exactly while a WM_COMMAND handler is
\* inside set_display_refresh_rate, so it is free whenever the thread is in
\* the message loop or in the modal loop of the menu.
C22_MutexHeldExactlyDuringSetCall ==
    /\ (mutex = "locked") <=> (setCall # <<>>)
    /\ upc = "exited" => mutex = "unlocked"

====
